---- MODULE Spec2Model ----
(***************************************************************************)
(* A model of yffpy's YahooFantasyFootballQuery (src/yffpy/query.py): the  *)
(* instance fields, the generic query method stepped through its request,  *)
(* key-path loop and unpack/return, league-key resolution and the          *)
(* convenience operations that are URL / key path / response type tables.  *)
(*                                                                         *)
(* JSON values are encoded as records, one field name per kind, so that    *)
(* values of different kinds can be compared:                              *)
(*   [s |-> "x"]         a scalar (strings; numbers by their decimal text) *)
(*   [null |-> TRUE]     JSON null / Python None                           *)
(*   [m |-> f]           a mapping, f a function from string keys          *)
(*   [l |-> q]           an ordered sequence                               *)
(*   [cls |-> c, obj |-> v]  an instance of the typed model c built from v *)
(***************************************************************************)
EXTENDS Integers, Sequences, FiniteSets, TLC

VARIABLES
    league_id,          \* self.league_id
    game_id,            \* self.game_id (None when not given)
    league_key,         \* self.league_key, the league key cache
    offline,            \* self.offline
    files_read,         \* credential / token files opened so far
    pc,                 \* position of the operation in progress
    op,                 \* the public operation in progress
    phase,              \* "key": inside get_league_key; "main": the operation's own query
    args,               \* chosen_week / team_id / player_key / game_id arguments of op
    q_url,              \* query's url argument
    q_path,             \* query's data_key_list argument
    q_class,            \* query's data_type_class argument
    response,           \* "fantasy_content" of the document the GET answered with
    raw_response_data,  \* query's local of that name
    i,                  \* loop index of the key-path loop
    q_result,           \* outcome of the query call that last ended
    result,             \* outcome of the public operation that last ended
    requests,           \* GET requests issued by the operation in progress
    q_sent,             \* GET requests issued by the query call in progress
    key_log,            \* league keys returned by get_league_key, oldest first
    calls               \* public operations started so far

vars == <<league_id, game_id, league_key, offline, files_read, pc, op, phase, args,
          q_url, q_path, q_class, response, raw_response_data, i, q_result,
          result, requests, q_sent, key_log, calls>>

-----------------------------------------------------------------------------
(* Bounds *)

MaxCalls == 2       \* public operations per behaviour
MaxIdx == 2         \* largest integer key of a generated mapping
MaxGameId == 1      \* explicit game ids are 1..MaxGameId

-----------------------------------------------------------------------------
(* JSON values *)

S(x) == [s |-> x]
Null == [null |-> TRUE]
M(f) == [m |-> f]
L(q) == [l |-> q]
T(c, v) == [cls |-> c, obj |-> v]

IsScalar(v) == DOMAIN v = {"s"}
IsNull(v) == DOMAIN v = {"null"}
IsMap(v) == DOMAIN v = {"m"}
IsList(v) == DOMAIN v = {"l"}
IsTyped(v) == DOMAIN v = {"cls", "obj"}

Keys(v) == DOMAIN v.m

\* Python None for the fields and arguments that are not JSON values.
None == "None"
NoGameId == -1

-----------------------------------------------------------------------------
(* yffpy.models: the typed models imported by query.py *)

ModelOfKey ==
    [k \in {"game", "user", "league", "standings", "settings", "player"} |->
        CASE k = "game" -> "Game"
          [] k = "user" -> "User"
          [] k = "league" -> "League"
          [] k = "standings" -> "Standings"
          [] k = "settings" -> "Settings"
          [] k = "player" -> "Player"]

-----------------------------------------------------------------------------
(* yffpy.utils.unpack_data: the generic unpacker *)

\* The decimal text of an index, and the parse of a key back to an index.
IntKey(n) == ToString(n)
IsIntKey(k) == \E n \in 0..MaxIdx : IntKey(n) = k
IntOfKey(k) == CHOOSE n \in 0..MaxIdx : IntKey(n) = k

\* The list-as-map shape: a "count" key plus the keys "0".."n-1".
IsListAsMap(f) ==
    /\ "count" \in DOMAIN f
    /\ \A k \in DOMAIN f \ {"count"} : IsIntKey(k)
    /\ {IntOfKey(k) : k \in DOMAIN f \ {"count"}} = 0..(Cardinality(DOMAIN f) - 2)

\* Drop "count", order the remaining entries by integer key, take the values.
NormalizeListAsMap(f) == [j \in 1..(Cardinality(DOMAIN f) - 1) |-> f[IntKey(j - 1)]]

\* A mapping under a key that names a typed model becomes an instance of it.
Promote(k, u) == IF k \in DOMAIN ModelOfKey /\ IsMap(u) THEN T(ModelOfKey[k], u) ELSE u

RECURSIVE unpack_data(_)
unpack_data(v) ==
    IF IsList(v) THEN L([j \in 1..Len(v.l) |-> unpack_data(v.l[j])])
    ELSE IF IsMap(v) THEN
        IF IsListAsMap(v.m)
        THEN LET q == NormalizeListAsMap(v.m)
             IN  L([j \in 1..Len(q) |-> unpack_data(q[j])])
        ELSE M([k \in DOMAIN v.m |-> Promote(k, unpack_data(v.m[k]))])
    ELSE v

\* reformat_json_list followed by indexing with a key: the elements that are
\* list-as-map mappings are normalized, then the sequence is indexed by the
\* integer the key spells.
reformat_json_list(q) ==
    [j \in 1..Len(q) |->
        IF IsMap(q[j]) /\ IsListAsMap(q[j].m) THEN L(NormalizeListAsMap(q[j].m)) ELSE q[j]]
HasIndex(q, k) == IsIntKey(k) /\ IntOfKey(k) + 1 \in 1..Len(q)

-----------------------------------------------------------------------------
(* The public operations: URL, key path and response type of each *)

Base == "https://fantasysports.yahooapis.com/fantasy/v2/"

\* Operations that begin by calling get_league_key.
KeyOps == {"get_league_key", "get_overview", "get_standings", "get_settings",
           "get_teams", "get_matchups", "get_team_roster", "get_player_stats"}
\* Operations that are a single call of query.
PlainOps == {"query", "get_current_nfl_fantasy_game", "get_nfl_fantasy_game",
             "get_user_game_history", "get_user_league_history"}

GameIds == 1..MaxGameId
LeagueIds == {"729"}
Weeks == {1}
TeamIds == {1}
PlayerKeys == {"390.p.1"}

\* Arguments of the generic query when a caller uses it directly.
CallerUrls == {Base \o "league/390.l.729/standings"}
CallerPaths == {<< >>, <<"league", "standings">>, <<"standings", "league">>}
CallerClasses == {None, "Standings"}

ArgSets ==
    [week : Weeks, team_id : TeamIds, player_key : PlayerKeys, game_id : GameIds,
     url : CallerUrls, path : CallerPaths, class : CallerClasses]

\* Python truthiness of self.game_id and of self.league_key.
TruthyId(g) == g # NoGameId /\ g # 0
TruthyStr(x) == x # None /\ x # ""

get_current_nfl_fantasy_game == [url |-> Base \o "game/nfl", path |-> <<"game">>, class |-> "Game"]

get_nfl_fantasy_game(g) ==
    [url |-> Base \o "game/" \o ToString(g), path |-> <<"game">>, class |-> "Game"]

\* The query a plain operation makes.
PlainQuery(o, a) ==
    CASE o = "query" -> [url |-> a.url, path |-> a.path, class |-> a.class]
      [] o = "get_current_nfl_fantasy_game" -> get_current_nfl_fantasy_game
      [] o = "get_nfl_fantasy_game" -> get_nfl_fantasy_game(a.game_id)
      [] o = "get_user_game_history" ->
            [url |-> Base \o "users;use_login=1/games;codes=nfl/",
             path |-> <<"users", "0", "user">>, class |-> "User"]
      [] o = "get_user_league_history" ->
            [url |-> Base \o "users;use_login=1/games;codes=nfl/leagues/",
             path |-> <<"users", "0", "user">>, class |-> "User"]

\* The query a league operation makes once get_league_key has returned key.
LeagueQuery(o, key, a) ==
    CASE o = "get_overview" ->
            [url |-> Base \o "league/" \o key \o "/", path |-> <<"league">>, class |-> "League"]
      [] o = "get_standings" ->
            [url |-> Base \o "league/" \o key \o "/standings",
             path |-> <<"league", "standings">>, class |-> "Standings"]
      [] o = "get_settings" ->
            [url |-> Base \o "league/" \o key \o "/settings",
             path |-> <<"league", "settings">>, class |-> "Settings"]
      [] o = "get_teams" ->
            [url |-> Base \o "league/" \o key \o "/teams",
             path |-> <<"league", "teams">>, class |-> None]
      [] o = "get_matchups" ->
            [url |-> Base \o "league/" \o key \o "/scoreboard;week=" \o ToString(a.week),
             path |-> <<"league", "scoreboard", "0", "matchups">>, class |-> None]
      [] o = "get_team_roster" ->
            [url |-> Base \o "team/" \o (key \o ".t." \o ToString(a.team_id))
                        \o "/roster;week=" \o ToString(a.week) \o "/players/stats",
             path |-> <<"team", "roster", "0", "players">>, class |-> None]
      [] o = "get_player_stats" ->
            [url |-> Base \o "league/" \o key \o "/players;player_keys=" \o a.player_key
                        \o "/stats;type=week;week=" \o ToString(a.week),
             path |-> <<"league", "players", "0", "player">>, class |-> "Player"]

\* GameLookup with the two branches of get_league_key exchanged.
GameLookupSwapped(g) ==
    IF TruthyId(g) THEN get_current_nfl_fantasy_game ELSE get_nfl_fantasy_game(MaxGameId)

\* The game lookup get_league_key makes when the key is not cached.
GameLookup(g) == IF TruthyId(g) THEN get_nfl_fantasy_game(g) ELSE get_current_nfl_fantasy_game

-----------------------------------------------------------------------------
(* The server: the documents a GET may answer with *)

GameKeys == {"390", "399"}

IndexSets == SUBSET ({IntKey(n) : n \in 0..MaxIdx} \cup {"count"})

\* Mappings over integer keys and "count", contiguous or not, with or without "count".
IndexedLeaf(D) ==
    M([k \in D |-> IF k = "count" THEN S(ToString(Cardinality(D \ {"count"}))) ELSE S("v" \o k)])

Leaves ==
    {S("x"), Null, L(<< >>)}
    \cup {M(("game_key" :> S(g)) @@ ("name" :> S("nfl"))) : g \in GameKeys}
    \cup {IndexedLeaf(D) : D \in IndexSets}
    \cup {M(("0" :> S("v0")) @@ ("name" :> S("x")) @@ ("count" :> S("1"))),
          M(("0" :> IndexedLeaf({"0", "count"})) @@ ("count" :> S("1"))),
          M(("game" :> M(("game_key" :> S("390")))) @@ ("name" :> S("x"))),
          L(<<S("a"), IndexedLeaf({"0", "count"})>>)}

\* The document that holds leaf under the keys of p, as nested mappings.
RECURSIVE Chain(_, _)
Chain(p, leaf) == IF p = << >> THEN leaf ELSE M(Head(p) :> Chain(Tail(p), leaf))

\* The same, with a sequence instead of a mapping wherever the key is an index.
RECURSIVE ChainL(_, _)
ChainL(p, leaf) ==
    IF p = << >> THEN leaf
    ELSE IF IsIntKey(Head(p))
         THEN L([j \in 1..(IntOfKey(Head(p)) + 1) |-> ChainL(Tail(p), leaf)])
         ELSE M(Head(p) :> ChainL(Tail(p), leaf))

Reverse(p) == [j \in 1..Len(p) |-> p[Len(p) + 1 - j]]

\* Values of "fantasy_content" for a request whose key path is p: the path may
\* be fully present, cut short at any step, or present in the wrong order.
Payloads(p) ==
    {Chain(SubSeq(p, 1, n), leaf) : n \in 0..Len(p), leaf \in Leaves}
    \cup {ChainL(p, leaf) : leaf \in Leaves}
    \cup {Chain(Reverse(p), leaf) : leaf \in Leaves}

-----------------------------------------------------------------------------
(* Outcomes of a call *)

Pending == [st |-> "pending"]                       \* the call has not ended
ReturnedNone == [st |-> "none"]                     \* fell off the end: returned None
Raised(e) == [st |-> "raised", exc |-> e]           \* an exception reached the caller
Record(d, u, r) == [st |-> "record", data |-> d, url |-> u, raw |-> r]
Value(k) == [st |-> "value", v |-> k]               \* get_league_key's string

Get(u) == [url |-> u, params |-> "format=json"]

ArgsOf(o) ==
    {a \in ArgSets : o # "query" =>
        /\ a.path = << >>
        /\ a.class = None}

-----------------------------------------------------------------------------
(* Construction *)

\* __init__: the four fields, and the credential and token files when online.
Init ==
    /\ league_id \in LeagueIds
    /\ game_id \in {NoGameId} \cup GameIds
    /\ league_key = None
    /\ offline \in BOOLEAN
    /\ files_read = IF offline THEN {} ELSE {"private.json", "token.json"}
    /\ pc = "idle"
    /\ op = None
    /\ phase = None
    /\ args = CHOOSE a \in ArgsOf(None) : TRUE
    /\ q_url = None
    /\ q_path = << >>
    /\ q_class = None
    /\ response = Null
    /\ raw_response_data = Null
    /\ i = 0
    /\ q_result = Pending
    /\ result = Pending
    /\ requests = << >>
    /\ q_sent = 0
    /\ key_log = << >>
    /\ calls = 0

-----------------------------------------------------------------------------
(* query *)

\* Entering query with the given arguments.
EnterQuery(q) ==
    /\ pc' = "query"
    /\ q_url' = q.url
    /\ q_path' = q.path
    /\ q_class' = q.class
    /\ q_sent' = 0
    /\ q_result' = Pending
    /\ response' = Null
    /\ raw_response_data' = Null
    /\ i' = 0

\* What the fields of the instance are after a step of query.
QueryFields == UNCHANGED <<league_id, game_id, league_key, offline, files_read>>

\* Online with the offline flag ignored.
OnlineAlways == TRUE

\* The test at the head of query.
Online == ~offline

\* Offline: the error is logged and the method falls off its end.
QueryOffline ==
    /\ pc = "query"
    /\ ~Online
    /\ q_result' = ReturnedNone
    /\ pc' = "resume"
    /\ QueryFields
    /\ UNCHANGED <<op, phase, args, q_url, q_path, q_class, response, raw_response_data, i,
                   result, requests, q_sent, key_log, calls>>

\* SendRequests with the GET retried once.
SendRequestsTwice == <<Get(q_url), Get(q_url)>>

\* The requests query issues for one call.
SendRequests == <<Get(q_url)>>

\* Online: one GET, then "fantasy_content" of the decoded document; a failed
\* request or an undecodable body raises out of query.
QueryRequest ==
    /\ pc = "query"
    /\ Online
    /\ requests' = requests \o SendRequests
    /\ q_sent' = q_sent + Len(SendRequests)
    /\ \/ /\ q_result' = Raised("TransportError")
          /\ pc' = "resume"
          /\ UNCHANGED <<response, raw_response_data, i>>
       \/ /\ \E doc \in Payloads(q_path) :
                /\ response' = doc
                /\ raw_response_data' = doc
          /\ i' = 0
          /\ pc' = "extract"
          /\ UNCHANGED q_result
    /\ QueryFields
    /\ UNCHANGED <<op, phase, args, q_url, q_path, q_class, result, key_log, calls>>

\* One iteration of the key-path loop on value v with key k: the next value,
\* or the exception raised.
Descend(v, k) ==
    IF IsList(v)
    THEN IF HasIndex(v.l, k)
         THEN [ok |-> TRUE, v |-> reformat_json_list(v.l)[IntOfKey(k) + 1]]
         ELSE [ok |-> FALSE, exc |-> "KeyError"]
    ELSE IF IsMap(v)
         THEN [ok |-> TRUE, v |-> IF k \in Keys(v) THEN v.m[k] ELSE Null]
         ELSE [ok |-> FALSE, exc |-> "AttributeError"]

QueryExtract ==
    /\ pc = "extract"
    /\ i < Len(q_path)
    /\ LET d == Descend(raw_response_data, q_path[i + 1])
       IN  IF d.ok
           THEN /\ raw_response_data' = d.v
                /\ i' = i + 1
                /\ UNCHANGED <<pc, q_result>>
           ELSE /\ q_result' = Raised(d.exc)
                /\ pc' = "resume"
                /\ UNCHANGED <<raw_response_data, i>>
    /\ QueryFields
    /\ UNCHANGED <<op, phase, args, q_url, q_path, q_class, response, result, requests,
                   q_sent, key_log, calls>>

\* QueryRecord with the unpacked value returned as raw.
QueryRecordRawUnpacked(raw) ==
    LET unpacked == unpack_data(raw)
        clean_response_data == IF q_class # None THEN T(q_class, unpacked) ELSE unpacked
    IN  Record(clean_response_data, q_url, unpacked)

\* QueryRecord with the response type never applied.
QueryRecordUntyped(raw) == Record(unpack_data(raw), q_url, raw)

\* QueryRecord with the extracted value left as it is.
QueryRecordNotUnpacked(raw) ==
    Record(IF q_class # None THEN T(q_class, raw) ELSE raw, q_url, raw)

\* The record query returns for the extracted value raw.
QueryRecord(raw) ==
    LET unpacked == unpack_data(raw)
        clean_response_data == IF q_class # None THEN T(q_class, unpacked) ELSE unpacked
    IN  Record(clean_response_data, q_url, raw)

QueryFinish ==
    /\ pc = "extract"
    /\ i = Len(q_path)
    /\ q_result' = QueryRecord(raw_response_data)
    /\ pc' = "resume"
    /\ QueryFields
    /\ UNCHANGED <<op, phase, args, q_url, q_path, q_class, response, raw_response_data, i,
                   result, requests, q_sent, key_log, calls>>

-----------------------------------------------------------------------------
(* get_league_key and the public operations *)

\* KeyFields with the configured game id overwritten.
KeyFieldsClobber(key) ==
    /\ game_id' = NoGameId
    /\ UNCHANGED <<league_id, league_key, offline, files_read>>

\* What get_league_key does to the fields of the instance once it has key.
KeyFields(key) == UNCHANGED <<league_id, game_id, league_key, offline, files_read>>

\* .get("data").game_key + ".l." + self.league_id on the outcome r of the game
\* lookup: the league key, or the exception raised.
LeagueKeyOf(r, lid) ==
    IF r.st = "raised" THEN [ok |-> FALSE, exc |-> r.exc]
    ELSE IF r.st # "record" THEN [ok |-> FALSE, exc |-> "AttributeError"]
    ELSE IF ~(/\ IsTyped(r.data)
              /\ IsMap(r.data.obj)
              /\ "game_key" \in Keys(r.data.obj))
         THEN [ok |-> FALSE, exc |-> "AttributeError"]
    ELSE IF ~IsScalar(r.data.obj.m["game_key"]) THEN [ok |-> FALSE, exc |-> "TypeError"]
    ELSE [ok |-> TRUE, v |-> r.data.obj.m["game_key"].s \o ".l." \o lid]

\* A caller starts an operation that is one call of query.
CallPlain(o, a) ==
    /\ pc = "idle"
    /\ calls < MaxCalls
    /\ calls' = calls + 1
    /\ op' = o
    /\ args' = a
    /\ phase' = "main"
    /\ requests' = << >>
    /\ result' = Pending
    /\ EnterQuery(PlainQuery(o, a))
    /\ QueryFields
    /\ UNCHANGED key_log

\* A caller starts get_league_key or an operation that begins with it: the
\* cached key when there is one, else the game lookup.
CallKeyOp(o, a) ==
    /\ pc = "idle"
    /\ calls < MaxCalls
    /\ calls' = calls + 1
    /\ op' = o
    /\ args' = a
    /\ requests' = << >>
    /\ IF TruthyStr(league_key)
       THEN /\ key_log' = Append(key_log, league_key)
            /\ IF o = "get_league_key"
               THEN /\ result' = Value(league_key)
                    /\ phase' = "key"
                    /\ UNCHANGED <<pc, q_url, q_path, q_class, q_sent, q_result,
                                   response, raw_response_data, i>>
               ELSE /\ result' = Pending
                    /\ phase' = "main"
                    /\ EnterQuery(LeagueQuery(o, league_key, a))
       ELSE /\ result' = Pending
            /\ phase' = "key"
            /\ EnterQuery(GameLookup(game_id))
            /\ UNCHANGED key_log
    /\ QueryFields

\* The game lookup has ended: get_league_key builds the key and returns it,
\* to the caller or to the operation that asked for it.
GetLeagueKeyResume ==
    /\ pc = "resume"
    /\ phase = "key"
    /\ LET k == LeagueKeyOf(q_result, league_id)
       IN  IF ~k.ok
           THEN /\ result' = Raised(k.exc)
                /\ pc' = "idle"
                /\ QueryFields
                /\ UNCHANGED <<phase, key_log, q_url, q_path, q_class, q_sent, q_result,
                               response, raw_response_data, i>>
           ELSE /\ key_log' = Append(key_log, k.v)
                /\ KeyFields(k.v)
                /\ IF op = "get_league_key"
                   THEN /\ result' = Value(k.v)
                        /\ pc' = "idle"
                        /\ UNCHANGED <<phase, q_url, q_path, q_class, q_sent, q_result,
                                       response, raw_response_data, i>>
                   ELSE /\ phase' = "main"
                        /\ EnterQuery(LeagueQuery(op, k.v, args))
                        /\ UNCHANGED result
    /\ UNCHANGED <<op, args, requests, calls>>

\* The operation's own query has ended: its outcome is the operation's.
ReturnToCaller ==
    /\ pc = "resume"
    /\ phase = "main"
    /\ result' = q_result
    /\ pc' = "idle"
    /\ QueryFields
    /\ UNCHANGED <<op, phase, args, q_url, q_path, q_class, response, raw_response_data, i,
                   q_result, requests, q_sent, key_log, calls>>

Next ==
    \/ \E o \in PlainOps : \E a \in ArgsOf(o) : CallPlain(o, a)
    \/ \E o \in KeyOps : \E a \in ArgsOf(o) : CallKeyOp(o, a)
    \/ QueryOffline
    \/ QueryRequest
    \/ QueryExtract
    \/ QueryFinish
    \/ GetLeagueKeyResume
    \/ ReturnToCaller

Spec == Init /\ [][Next]_vars

-----------------------------------------------------------------------------
(* Properties *)

\* A game lookup is issued in this step.
GameLookupIssued == phase = "key" /\ Len(requests') > Len(requests)

\* C1: once get_league_key has returned a key (directly or inside a league
\* operation), every later get_league_key returns that same key and no further
\* game lookup is requested.
C1_KeyCachedAfterFirstResolution ==
    [][key_log # << >> =>
            /\ ~GameLookupIssued
            /\ \A j \in 1..Len(key_log') : key_log'[j] = key_log[1]]_vars

\* The URL of the game that applies: the configured game id's, else the current season's.
ApplicableGameUrl ==
    IF game_id = NoGameId THEN Base \o "game/nfl" ELSE Base \o "game/" \o ToString(game_id)
AllGameUrls == {Base \o "game/nfl"} \cup {Base \o "game/" \o ToString(g) : g \in GameIds}

C3_OfflineQueryRaises ==
    (offline /\ pc = "resume") => q_result = Raised("OfflineModeUnavailable")

\* C4: offline, no step issues a request or opens the credential or token
\* file, and the instance stays offline.
C4_OfflineNeverTouchesNetwork ==
    [][offline =>
            /\ offline'
            /\ requests' = << >>
            /\ q_sent' = 0
            /\ files_read' = {}]_vars

C4_Witness ==
    /\ offline
    /\ calls >= 2
    /\ pc = "idle"
    /\ result = ReturnedNone

\* Every key of p is present, in order, starting from v.
RECURSIVE Present(_, _)
Present(v, p) ==
    IF p = << >> THEN TRUE
    ELSE IF IsList(v)
         THEN /\ HasIndex(v.l, Head(p))
              /\ Present(reformat_json_list(v.l)[IntOfKey(Head(p)) + 1], Tail(p))
    ELSE IF IsMap(v)
         THEN /\ Head(p) \in Keys(v)
              /\ Present(v.m[Head(p)], Tail(p))
    ELSE FALSE

\* C5: a query whose request succeeded returns a record when every key of the
\* path is present in order, and raises, returning no record, when any key is
\* absent.
C5_AbsentKeyRaises ==
    (pc = "resume" /\ ~offline /\ q_result # Raised("TransportError")) =>
        IF Present(response, q_path)
        THEN q_result.st = "record"
        ELSE q_result.st = "raised"

\* The value the key path leads to from v; null where a mapping lacks the key.
RECURSIVE Follow(_, _)
Follow(v, p) ==
    IF p = << >> THEN v
    ELSE IF IsList(v)
         THEN Follow(reformat_json_list(v.l)[IntOfKey(Head(p)) + 1], Tail(p))
    ELSE IF IsMap(v) /\ Head(p) \in Keys(v) THEN Follow(v.m[Head(p)], Tail(p))
    ELSE Null

RECURSIVE NoTyped(_)
NoTyped(v) ==
    IF IsTyped(v) THEN FALSE
    ELSE IF IsList(v) THEN \A j \in 1..Len(v.l) : NoTyped(v.l[j])
    ELSE IF IsMap(v) THEN \A k \in Keys(v) : NoTyped(v.m[k])
    ELSE TRUE

\* C6: a returned record carries the url argument unchanged and, as raw, the
\* value the key path leads to from "fantasy_content", untouched by unpacking.
C6_RecordUrlAndRaw ==
    q_result.st = "record" =>
        /\ q_result.url = q_url
        /\ q_result.raw = Follow(response, q_path)
        /\ q_result.raw = raw_response_data
        /\ NoTyped(q_result.raw)

C6_Witness ==
    /\ op = "get_standings"
    /\ result.st = "record"
    /\ result.raw = M(("0" :> S("v0")) @@ ("count" :> S("1")))
    /\ result.data = T("Standings", L(<<S("v0")>>))

\* The response type of each operation; None where the data stays untyped.
ExpectedClass(o, a) ==
    CASE o \in {"get_teams", "get_matchups", "get_team_roster"} -> None
      [] o = "get_overview" -> "League"
      [] o = "get_standings" -> "Standings"
      [] o = "get_settings" -> "Settings"
      [] o = "get_player_stats" -> "Player"
      [] o \in {"get_current_nfl_fantasy_game", "get_nfl_fantasy_game"} -> "Game"
      [] o \in {"get_user_game_history", "get_user_league_history"} -> "User"
      [] o = "query" -> a.class

\* C7: data is an instance of the response type built from the unpacked value
\* when a type is given and the unpacked value itself otherwise; each
\* operation has the response type of the table above.
C7_DataTyping ==
    /\ (pc = "idle" /\ result.st = "record") =>
            LET c == ExpectedClass(op, args)
                u == unpack_data(result.raw)
            IN  IF c = None
                THEN result.data = u /\ ~IsTyped(result.data)
                ELSE result.data = [cls |-> c, obj |-> u]
    /\ (phase = "key" /\ q_result.st = "record") =>
            q_result.data = [cls |-> "Game", obj |-> unpack_data(q_result.raw)]

C7_Witness ==
    /\ op = "get_teams"
    /\ result.st = "record"
    /\ IsMap(result.data)
    /\ Keys(result.data) # {}

\* The unpacked value inside the record, below the response type if any.
Unwrapped(r) == IF IsTyped(r.data) THEN r.data.obj ELSE r.data

\* The keys other than "count" are the integers 0..n-1.
IndexKeysContiguous(f) ==
    LET ks == DOMAIN f \ {"count"}
    IN  /\ \A k \in ks : IsIntKey(k)
        /\ {IntOfKey(k) : k \in ks} = 0..(Cardinality(ks) - 1)

\* The sequence u holds the values of f in ascending integer-key order, unpacked.
ValuesInKeyOrder(u, f) ==
    /\ IsList(u)
    /\ Len(u.l) = Cardinality(DOMAIN f \ {"count"})
    /\ \A j \in 1..Len(u.l) : u.l[j] = unpack_data(f[IntKey(j - 1)])

\* C8 as claimed: a mapping is normalized exactly when its keys other than
\* "count" are 0..n-1, n = 0 included.
C8_NormalizedIffContiguous ==
    (q_result.st = "record" /\ IsMap(q_result.raw)) =>
        IF IndexKeysContiguous(q_result.raw.m)
        THEN ValuesInKeyOrder(Unwrapped(q_result), q_result.raw.m)
        ELSE IsMap(Unwrapped(q_result))

\* C8 as amended: a mapping is normalized exactly when it has a "count" key
\* and its other keys are 0..n-1 (n = 0: a mapping holding "count" alone);
\* any other mapping stays a mapping with the same keys, and no exception
\* comes out of the unpacking step.
C8_NormalizedIffCountAndContiguous ==
    /\ (q_result.st = "record" /\ IsMap(q_result.raw)) =>
            IF "count" \in Keys(q_result.raw) /\ IndexKeysContiguous(q_result.raw.m)
            THEN ValuesInKeyOrder(Unwrapped(q_result), q_result.raw.m)
            ELSE /\ IsMap(Unwrapped(q_result))
                 /\ Keys(Unwrapped(q_result)) = Keys(q_result.raw)
    /\ (pc = "resume" /\ q_result.st = "raised" /\ q_result.exc # "TransportError") =>
            i < Len(q_path)

C8_Witness ==
    /\ q_result.st = "record"
    /\ IsMap(q_result.raw)
    /\ Keys(q_result.raw) = {"0", "1", "count"}
    /\ Unwrapped(q_result) = L(<<S("v0"), S("v1")>>)

\* C9: an online query call issues exactly one GET, to its url with
\* format=json, before the key-path loop starts, and none after it.
C9_OneRequestPerQuery ==
    /\ (~offline /\ pc = "query") => q_sent = 0
    /\ (~offline /\ pc \in {"extract", "resume"}) =>
            /\ q_sent = 1
            /\ requests # << >>
            /\ requests[Len(requests)] = [url |-> q_url, params |-> "format=json"]

C9_Witness ==
    /\ ~offline
    /\ pc = "resume"
    /\ q_result = Raised("AttributeError")
    /\ q_sent = 1
    /\ i >= 1

\* C10: no step changes league_id, game_id or the offline flag.
C10_FieldsFixed ==
    [][/\ league_id' = league_id
       /\ game_id' = game_id
       /\ offline' = offline]_vars

C10_Witness ==
    /\ key_log # << >>
    /\ calls >= 2
    /\ pc = "idle"
    /\ result.st = "raised"

====
